---- MODULE Spec2Model ----
(***************************************************************************)
(* Model of utils/api.js: the module constant API_URL and the async        *)
(* function fetchBooks(), which awaits fetch(`${API_URL}books/`) and       *)
(* returns res.json().                                                     *)
(*                                                                         *)
(* One invocation of fetchBooks is a "call".  A call runs synchronously up *)
(* to its first await (the request is handed to the transport), is resumed *)
(* when the promise of fetch settles, calls res.json(), and is resumed a   *)
(* second time when the promise of res.json() settles.  The transport (the *)
(* network and the server behind it) is the environment: it fails a        *)
(* request, answers it with a status line, and then either delivers the    *)
(* body or breaks the body stream.                                         *)
(*                                                                         *)
(* Texts that are parsed (response bodies) are sequences of one-character  *)
(* strings; the URL, which is only concatenated, is a string.              *)
(***************************************************************************)
EXTENDS Integers, Sequences, FiniteSets, TLC

\* Largest number of invocations of fetchBooks in one run.
MaxCalls == 2

(***************************************************************************)
(* JSON values, as JSON.parse builds them.  Every value is a record of the *)
(* same shape: t is the JSON type, n the number, s the characters of a     *)
(* string, k the keys of an object in insertion order, a the elements of   *)
(* an array or the member values of an object (a[i] belongs to k[i]).      *)
(***************************************************************************)
JNull == [t |-> "null", n |-> 0, s |-> <<>>, k |-> <<>>, a |-> <<>>]

JBool(b) == [t |-> IF b THEN "true" ELSE "false", n |-> 0, s |-> <<>>, k |-> <<>>, a |-> <<>>]

JNum(n) == [t |-> "number", n |-> n, s |-> <<>>, k |-> <<>>, a |-> <<>>]

JStr(s) == [t |-> "string", n |-> 0, s |-> s, k |-> <<>>, a |-> <<>>]

JArr(a) == [t |-> "array", n |-> 0, s |-> <<>>, k |-> <<>>, a |-> a]

JObj(k, a) == [t |-> "object", n |-> 0, s |-> <<>>, k |-> k, a |-> a]

(***************************************************************************)
(* JSON.parse, as res.json() applies it to the body text.  The grammar is  *)
(* that of JSON restricted to the characters the modelled bodies use:      *)
(* numbers are integers (no fraction, no exponent) and the escapes of a    *)
(* string are \" \\ \/ only.  A parse step returns ok, the value and the   *)
(* position after it.                                                      *)
(***************************************************************************)
ParseFail == [ok |-> FALSE, val |-> JNull, pos |-> 0]

ParseOk(v, p) == [ok |-> TRUE, val |-> v, pos |-> p]

IsWs(ch) == ch \in {" ", "\n", "\t", "\r"}

IsDigit(ch) == ch \in {"0", "1", "2", "3", "4", "5", "6", "7", "8", "9"}

DigitVal(ch) ==
    CASE ch = "0" -> 0 [] ch = "1" -> 1 [] ch = "2" -> 2 [] ch = "3" -> 3
      [] ch = "4" -> 4 [] ch = "5" -> 5 [] ch = "6" -> 6 [] ch = "7" -> 7
      [] ch = "8" -> 8 [] ch = "9" -> 9

RECURSIVE SkipWs(_, _)
SkipWs(t, i) == IF i <= Len(t) /\ IsWs(t[i]) THEN SkipWs(t, i + 1) ELSE i

\* t[i .. i+Len(w)-1] = w
HasWord(t, i, w) ==
    /\ i + Len(w) - 1 <= Len(t)
    /\ \A j \in 1..Len(w) : t[i + j - 1] = w[j]

\* the characters of a string after its opening quote, up to the closing one
RECURSIVE ScanString(_, _, _)
ScanString(t, i, acc) ==
    IF i > Len(t) THEN ParseFail
    ELSE IF t[i] = "\"" THEN ParseOk(JStr(acc), i + 1)
    ELSE IF t[i] = "\\" THEN
        IF i + 1 <= Len(t) /\ t[i + 1] \in {"\"", "\\", "/"}
        THEN ScanString(t, i + 2, Append(acc, t[i + 1]))
        ELSE ParseFail
    ELSE IF t[i] \in {"\n", "\t", "\r"} THEN ParseFail
    ELSE ScanString(t, i + 1, Append(acc, t[i]))

RECURSIVE ScanDigits(_, _, _)
ScanDigits(t, i, acc) ==
    IF i <= Len(t) /\ IsDigit(t[i])
    THEN ScanDigits(t, i + 1, 10 * acc + DigitVal(t[i]))
    ELSE [val |-> acc, pos |-> i]

\* an integer: "0" alone or a digit 1-9 followed by digits; i is at its first digit
ScanInt(t, i, sign) ==
    IF i > Len(t) \/ ~IsDigit(t[i]) THEN ParseFail
    ELSE LET d == IF t[i] = "0" THEN [val |-> 0, pos |-> i + 1]
                  ELSE ScanDigits(t, i, 0)
         IN  IF d.pos <= Len(t) /\ t[d.pos] \in {".", "e", "E"} THEN ParseFail
             ELSE ParseOk(JNum(sign * d.val), d.pos)

ParseNumber(t, i) ==
    IF t[i] = "-" THEN ScanInt(t, i + 1, -1) ELSE ScanInt(t, i, 1)

\* the member <<key, v>> added to an object: a repeated key keeps its place
\* and takes the last value
PutMember(keys, vals, key, v) ==
    IF \E j \in 1..Len(keys) : keys[j] = key
    THEN LET j == CHOOSE j \in 1..Len(keys) : keys[j] = key
         IN  [k |-> keys, a |-> [vals EXCEPT ![j] = v]]
    ELSE [k |-> Append(keys, key), a |-> Append(vals, v)]

RECURSIVE ParseValue(_, _)
RECURSIVE ParseElements(_, _, _)
RECURSIVE ParseMembers(_, _, _, _)

\* the elements of an array, i at the start of an element
ParseElements(t, i, acc) ==
    LET r == ParseValue(t, i)
    IN  IF ~r.ok THEN ParseFail
        ELSE LET j == SkipWs(t, r.pos)
             IN  IF j > Len(t) THEN ParseFail
                 ELSE IF t[j] = "," THEN ParseElements(t, j + 1, Append(acc, r.val))
                 ELSE IF t[j] = "]" THEN ParseOk(JArr(Append(acc, r.val)), j + 1)
                 ELSE ParseFail

\* the members of an object, i at the start of a member
ParseMembers(t, i, keys, vals) ==
    LET j == SkipWs(t, i)
    IN  IF j > Len(t) \/ t[j] # "\"" THEN ParseFail
        ELSE LET key == ScanString(t, j + 1, <<>>)
             IN  IF ~key.ok THEN ParseFail
                 ELSE LET c == SkipWs(t, key.pos)
                      IN  IF c > Len(t) \/ t[c] # ":" THEN ParseFail
                          ELSE LET r == ParseValue(t, c + 1)
                               IN  IF ~r.ok THEN ParseFail
                                   ELSE LET m == PutMember(keys, vals, key.val.s, r.val)
                                            e == SkipWs(t, r.pos)
                                        IN  IF e > Len(t) THEN ParseFail
                                            ELSE IF t[e] = "," THEN ParseMembers(t, e + 1, m.k, m.a)
                                            ELSE IF t[e] = "}" THEN ParseOk(JObj(m.k, m.a), e + 1)
                                            ELSE ParseFail

ParseValue(t, i) ==
    LET j == SkipWs(t, i)
    IN  IF j > Len(t) THEN ParseFail
        ELSE IF t[j] = "[" THEN
            LET e == SkipWs(t, j + 1)
            IN  IF e <= Len(t) /\ t[e] = "]" THEN ParseOk(JArr(<<>>), e + 1)
                ELSE ParseElements(t, j + 1, <<>>)
        ELSE IF t[j] = "{" THEN
            LET e == SkipWs(t, j + 1)
            IN  IF e <= Len(t) /\ t[e] = "}" THEN ParseOk(JObj(<<>>, <<>>), e + 1)
                ELSE ParseMembers(t, j + 1, <<>>, <<>>)
        ELSE IF t[j] = "\"" THEN ScanString(t, j + 1, <<>>)
        ELSE IF t[j] = "-" \/ IsDigit(t[j]) THEN ParseNumber(t, j)
        ELSE IF HasWord(t, j, <<"t", "r", "u", "e">>) THEN ParseOk(JBool(TRUE), j + 4)
        ELSE IF HasWord(t, j, <<"f", "a", "l", "s", "e">>) THEN ParseOk(JBool(FALSE), j + 5)
        ELSE IF HasWord(t, j, <<"n", "u", "l", "l">>) THEN ParseOk(JNull, j + 4)
        ELSE ParseFail

\* JSON.parse(t): one value, surrounded by optional white space, and nothing else
JSONparse(t) ==
    LET r == ParseValue(t, 1)
    IN  IF r.ok /\ SkipWs(t, r.pos) = Len(t) + 1 THEN r ELSE ParseFail

(***************************************************************************)
(* The program's inputs.                                                   *)
(***************************************************************************)
\* The value of the module constant API_URL.
API_URL == "https://your-django-api.com/api/"

\* Arguments a caller passes.  fetchBooks declares no parameter, so an
\* argument is accepted and never read.
Paths == {"books/", "authors/"}

\* Status codes a server answers with.
Statuses == {200, 500}

\* [{"id":1,"title":"A"}]
BodyBooks ==
    << "[", "{", "\"", "i", "d", "\"", ":", "1", ",",
       "\"", "t", "i", "t", "l", "e", "\"", ":", "\"", "A", "\"", "}", "]" >>

\* {"detail":"server error"}
BodyDetail ==
    << "{", "\"", "d", "e", "t", "a", "i", "l", "\"", ":",
       "\"", "s", "e", "r", "v", "e", "r", " ", "e", "r", "r", "o", "r", "\"", "}" >>

\* error
BodyText == << "e", "r", "r", "o", "r" >>

\* null
BodyNull == << "n", "u", "l", "l" >>

\* Body texts a server sends.
Bodies == {BodyBooks, BodyDetail, BodyText, BodyNull}

Calls == 1..MaxCalls

(***************************************************************************)
(* State.                                                                  *)
(*   endpoint  the binding API_URL of the module                           *)
(*   nCalls    number of invocations of fetchBooks so far; the c-th        *)
(*             invocation is call c                                        *)
(*   arg[c]    the argument call c was invoked with                        *)
(*   pc[c]     where call c is: "idle" (not invoked), "awaitFetch"         *)
(*             (suspended at await fetch(...)), "awaitJson" (its promise   *)
(*             follows the promise of res.json()), "resolved", "rejected"  *)
(*   req[c]    the request whose promise call c awaits (index in sent)     *)
(*   res[c]    the request whose Response is bound to res in call c        *)
(*   parsed[c] JSON.parse has run for call c                               *)
(*   result[c] what the promise of call c settled with                     *)
(*   sent      the requests handed to the transport, in order              *)
(*   net[k]    the transport's side of request k: st is "inflight",        *)
(*             "failed" or "headers" (a Response with status exists);      *)
(*             bodySt is "unread", "reading", "done" (body holds the       *)
(*             text) or "failed" (the body stream broke)                   *)
(***************************************************************************)
VARIABLES endpoint, nCalls, arg, pc, req, res, parsed, result, sent, net

vars == <<endpoint, nCalls, arg, pc, req, res, parsed, result, sent, net>>

NoResult == [kind |-> "none", val |-> JNull, err |-> ""]

Value(v) == [kind |-> "value", val |-> v, err |-> ""]

Error(e) == [kind |-> "error", val |-> JNull, err |-> e]

Pending(c) == pc[c] \in {"awaitFetch", "awaitJson"}

Settled(c) == pc[c] \in {"resolved", "rejected"}

Init ==
    /\ endpoint = API_URL
    /\ nCalls = 0
    /\ arg = [c \in Calls |-> ""]
    /\ pc = [c \in Calls |-> "idle"]
    /\ req = [c \in Calls |-> 0]
    /\ res = [c \in Calls |-> 0]
    /\ parsed = [c \in Calls |-> FALSE]
    /\ result = [c \in Calls |-> NoResult]
    /\ sent = <<>>
    /\ net = <<>>

\* mutant: the path is left out of the URL
RequestUrlBare(base) == base

\* `${API_URL}books/`
RequestUrl(base) == base \o "books/"

\* mutant: an array payload is unwrapped to its first element
JsonOutcomeFirst(text) ==
    LET r == JSONparse(text)
    IN  IF ~r.ok THEN Error("SyntaxError")
        ELSE IF r.val.t = "array" /\ Len(r.val.a) > 0 THEN Value(r.val.a[1])
        ELSE Value(r.val)

\* mutant: a body that does not parse is handed over as text
JsonOutcomeRawText(text) ==
    LET r == JSONparse(text)
    IN  IF r.ok THEN Value(r.val) ELSE Value(JStr(text))

\* What the promise of res.json() settles with once the whole body text has
\* been read: the parsed value, or the SyntaxError of JSON.parse.
JsonOutcome(text) ==
    LET r == JSONparse(text)
    IN  IF r.ok THEN Value(r.val) ELSE Error("SyntaxError")

\* mutant: the module binding is extended by the call
CallAppendsToEndpoint(p) ==
    /\ nCalls < MaxCalls
    /\ LET c == nCalls + 1
       IN  /\ nCalls' = c
           /\ arg' = [arg EXCEPT ![c] = p]
           /\ endpoint' = RequestUrl(endpoint)
           /\ sent' = Append(sent, [method |-> "GET", url |-> endpoint'])
           /\ net' = Append(net, [st |-> "inflight", status |-> 0,
                                  bodySt |-> "unread", body |-> <<>>])
           /\ req' = [req EXCEPT ![c] = Len(sent) + 1]
           /\ pc' = [pc EXCEPT ![c] = "awaitFetch"]
    /\ UNCHANGED <<res, parsed, result>>

\* fetchBooks(p) up to its first await: the URL is built from API_URL and
\* fetch hands one GET request to the transport.
Call(p) ==
    /\ nCalls < MaxCalls
    /\ LET c == nCalls + 1
       IN  /\ nCalls' = c
           /\ arg' = [arg EXCEPT ![c] = p]
           /\ sent' = Append(sent, [method |-> "GET", url |-> RequestUrl(endpoint)])
           /\ net' = Append(net, [st |-> "inflight", status |-> 0,
                                  bodySt |-> "unread", body |-> <<>>])
           /\ req' = [req EXCEPT ![c] = Len(sent) + 1]
           /\ pc' = [pc EXCEPT ![c] = "awaitFetch"]
    /\ UNCHANGED <<endpoint, res, parsed, result>>

\* The transport gives up on request k: the promise of fetch rejects.
NetFail(k) ==
    /\ k \in 1..Len(net)
    /\ net[k].st = "inflight"
    /\ net' = [net EXCEPT ![k].st = "failed"]
    /\ UNCHANGED <<endpoint, nCalls, arg, pc, req, res, parsed, result, sent>>

\* The status line and headers of the answer to request k arrive: the
\* promise of fetch fulfils with a Response, whatever the status.
NetRespond(k, s) ==
    /\ k \in 1..Len(net)
    /\ net[k].st = "inflight"
    /\ net' = [net EXCEPT ![k].st = "headers", ![k].status = s]
    /\ UNCHANGED <<endpoint, nCalls, arg, pc, req, res, parsed, result, sent>>

\* The body of the answer to request k has been read to its end.
BodyArrive(k, b) ==
    /\ k \in 1..Len(net)
    /\ net[k].bodySt = "reading"
    /\ net' = [net EXCEPT ![k].bodySt = "done", ![k].body = b]
    /\ UNCHANGED <<endpoint, nCalls, arg, pc, req, res, parsed, result, sent>>

\* The body stream of the answer to request k breaks before its end.
BodyFail(k) ==
    /\ k \in 1..Len(net)
    /\ net[k].bodySt = "reading"
    /\ net' = [net EXCEPT ![k].bodySt = "failed"]
    /\ UNCHANGED <<endpoint, nCalls, arg, pc, req, res, parsed, result, sent>>

\* mutant: a failed request falls back to the value null
ResumeFetchFallback(c) ==
    /\ pc[c] = "awaitFetch"
    /\ LET k == req[c]
       IN  \/ /\ net[k].st = "failed"
              /\ pc' = [pc EXCEPT ![c] = "resolved"]
              /\ result' = [result EXCEPT ![c] = Value(JNull)]
              /\ UNCHANGED <<res, net>>
           \/ /\ net[k].st = "headers"
              /\ res' = [res EXCEPT ![c] = k]
              /\ net' = [net EXCEPT ![k].bodySt = "reading"]
              /\ pc' = [pc EXCEPT ![c] = "awaitJson"]
              /\ UNCHANGED result
    /\ UNCHANGED <<endpoint, nCalls, arg, req, parsed, sent>>

\* mutant: a status of 400 or more is turned into a rejection
ResumeFetchChecksStatus(c) ==
    /\ pc[c] = "awaitFetch"
    /\ LET k == req[c]
       IN  \/ /\ \/ net[k].st = "failed"
                 \/ net[k].st = "headers" /\ net[k].status >= 400
              /\ pc' = [pc EXCEPT ![c] = "rejected"]
              /\ result' = [result EXCEPT ![c] = Error("TypeError")]
              /\ UNCHANGED <<res, net>>
           \/ /\ net[k].st = "headers" /\ net[k].status < 400
              /\ res' = [res EXCEPT ![c] = k]
              /\ net' = [net EXCEPT ![k].bodySt = "reading"]
              /\ pc' = [pc EXCEPT ![c] = "awaitJson"]
              /\ UNCHANGED result
    /\ UNCHANGED <<endpoint, nCalls, arg, req, parsed, sent>>

\* mutant: the continuation runs for a call that is no longer suspended at
\* the fetch
ResumeFetchAgain(c) ==
    /\ pc[c] # "idle"
    /\ LET k == req[c]
       IN  \/ /\ net[k].st = "failed"
              /\ pc' = [pc EXCEPT ![c] = "rejected"]
              /\ result' = [result EXCEPT ![c] = Error("TypeError")]
              /\ UNCHANGED <<res, net>>
           \/ /\ net[k].st = "headers"
              /\ res' = [res EXCEPT ![c] = k]
              /\ net' = [net EXCEPT ![k].bodySt = "reading"]
              /\ pc' = [pc EXCEPT ![c] = "awaitJson"]
              /\ UNCHANGED result
    /\ UNCHANGED <<endpoint, nCalls, arg, req, parsed, sent>>

\* mutant: the client gives up on a request the transport has not answered
ResumeFetchTimeout(c) ==
    /\ pc[c] = "awaitFetch"
    /\ LET k == req[c]
       IN  \/ /\ net[k].st \in {"failed", "inflight"}
              /\ pc' = [pc EXCEPT ![c] = "rejected"]
              /\ result' = [result EXCEPT ![c] = Error("TypeError")]
              /\ UNCHANGED <<res, net>>
           \/ /\ net[k].st = "headers"
              /\ res' = [res EXCEPT ![c] = k]
              /\ net' = [net EXCEPT ![k].bodySt = "reading"]
              /\ pc' = [pc EXCEPT ![c] = "awaitJson"]
              /\ UNCHANGED result
    /\ UNCHANGED <<endpoint, nCalls, arg, req, parsed, sent>>

\* Call c resumes from `await fetch(...)`.  A rejected fetch is thrown and
\* rejects the call (there is no try/catch); a Response is bound to res and
\* `return res.json()` starts reading its body.
ResumeFetch(c) ==
    /\ pc[c] = "awaitFetch"
    /\ LET k == req[c]
       IN  \/ /\ net[k].st = "failed"
              /\ pc' = [pc EXCEPT ![c] = "rejected"]
              /\ result' = [result EXCEPT ![c] = Error("TypeError")]
              /\ UNCHANGED <<res, net>>
           \/ /\ net[k].st = "headers"
              /\ res' = [res EXCEPT ![c] = k]
              /\ net' = [net EXCEPT ![k].bodySt = "reading"]
              /\ pc' = [pc EXCEPT ![c] = "awaitJson"]
              /\ UNCHANGED result
    /\ UNCHANGED <<endpoint, nCalls, arg, req, parsed, sent>>

\* What call c settles with when the body read of request k has finished.
JsonSettle(c, k) ==
    \/ /\ net[k].bodySt = "failed"
       /\ pc' = [pc EXCEPT ![c] = "rejected"]
       /\ result' = [result EXCEPT ![c] = Error("TypeError")]
       /\ UNCHANGED parsed
    \/ /\ net[k].bodySt # "failed"
       /\ parsed' = [parsed EXCEPT ![c] = TRUE]
       /\ LET o == JsonOutcome(net[k].body)
          IN  /\ result' = [result EXCEPT ![c] = o]
              /\ pc' = [pc EXCEPT ![c] = IF o.kind = "value" THEN "resolved"
                                         ELSE "rejected"]

\* mutant: the Response is kept in one place shared by all calls, so a call
\* reads the body of the latest answered request
ResumeJsonShared(c) ==
    /\ pc[c] = "awaitJson"
    /\ \E k \in 1..Len(net) :
          /\ net[k].bodySt \in {"done", "failed"}
          /\ \A j \in 1..Len(net) : net[j].bodySt \in {"done", "failed"} => j <= k
          /\ JsonSettle(c, k)
    /\ UNCHANGED <<endpoint, nCalls, arg, req, res, sent, net>>

\* mutant: the body is parsed before it has been read to its end
ResumeJsonEarly(c) ==
    /\ pc[c] = "awaitJson"
    /\ net[res[c]].bodySt \in {"reading", "done", "failed"}
    /\ JsonSettle(c, res[c])
    /\ UNCHANGED <<endpoint, nCalls, arg, req, res, sent, net>>

\* The promise of res.json() settles and the promise of call c follows it:
\* a broken body stream rejects it; a complete body is parsed by JSON.parse
\* and the call resolves with the value or rejects with the SyntaxError.
ResumeJson(c) ==
    /\ pc[c] = "awaitJson"
    /\ net[res[c]].bodySt \in {"done", "failed"}
    /\ JsonSettle(c, res[c])
    /\ UNCHANGED <<endpoint, nCalls, arg, req, res, sent, net>>

Next ==
    \/ \E p \in Paths : Call(p)
    \/ \E k \in 1..MaxCalls : NetFail(k)
    \/ \E k \in 1..MaxCalls, s \in Statuses : NetRespond(k, s)
    \/ \E k \in 1..MaxCalls, b \in Bodies : BodyArrive(k, b)
    \/ \E k \in 1..MaxCalls : BodyFail(k)
    \/ \E c \in Calls : ResumeFetch(c)
    \/ \E c \in Calls : ResumeJson(c)

Spec == Init /\ [][Next]_vars

Called == 1..nCalls

\* the value of [{"id":1,"title":"A"}]
BooksValue ==
    JArr(<< JObj(<< <<"i", "d">>, <<"t", "i", "t", "l", "e">> >>,
                 << JNum(1), JStr(<<"A">>) >>) >>)

\* the value of {"detail":"server error"}
DetailValue ==
    JObj(<< <<"d", "e", "t", "a", "i", "l">> >>,
         << JStr(<<"s", "e", "r", "v", "e", "r", " ", "e", "r", "r", "o", "r">>) >>)

\* the whole body of the answer to the request of call c has arrived
BodyRead(c) == net[req[c]].st = "headers" /\ net[req[c]].bodySt = "done"

\* the transport failed the request of call c, before or after the status line
TransportFailed(c) == net[req[c]].st = "failed" \/ net[req[c]].bodySt = "failed"

\* the transport has given its final answer to what call c is waiting for
Answered(c) == TransportFailed(c) \/ BodyRead(c)

(***************************************************************************)
(* C1 as stated: the requests issued are as many as the calls made, and    *)
(* the request of a call invoked with path p is a GET of the endpoint      *)
(* followed by p.                                                          *)
(***************************************************************************)
C1_UrlIsEndpointPlusArgument ==
    /\ Len(sent) = nCalls
    /\ \A c \in Called :
          sent[req[c]] = [method |-> "GET", url |-> endpoint \o arg[c]]

(***************************************************************************)
(* C1 amended: every call issues exactly one GET request, of the URL       *)
(* endpoint + "books/" whatever argument the caller passed; the requests   *)
(* issued are as many as the calls made, each call has a request of its    *)
(* own, whether the call is pending, resolved or rejected.                 *)
(***************************************************************************)
C1_OneGetOfBooksPerCall ==
    /\ Len(sent) = nCalls
    /\ \A c \in Called :
          /\ req[c] \in 1..Len(sent)
          /\ \A d \in Called : d # c => req[d] # req[c]
          /\ sent[req[c]] = [method |-> "GET",
                             url |-> "https://your-django-api.com/api/books/"]

C1_Witness ==
    /\ nCalls >= 2
    /\ \E c, d \in Called :
          /\ arg[c] = "authors/" /\ pc[c] = "rejected"
          /\ pc[d] = "resolved"
    /\ Len(sent) = nCalls

(***************************************************************************)
(* C2: a call whose response body arrived and is valid JSON ends resolved  *)
(* with exactly the value JSON.parse gives for that body; for the body     *)
(* [{"id":1,"title":"A"}] that is the one-element array holding the object *)
(* with id 1 and title "A".                                                *)
(***************************************************************************)
C2_ResolvesWithParsedBody ==
    \A c \in Called :
        (Settled(c) /\ BodyRead(c) /\ JSONparse(net[req[c]].body).ok) =>
            /\ pc[c] = "resolved"
            /\ result[c] = Value(JSONparse(net[req[c]].body).val)
            /\ (net[req[c]].body = BodyBooks => result[c].val = BooksValue)
            /\ (net[req[c]].body = BodyNull => result[c].val = JNull)

C2_Witness ==
    \E c \in Called :
        /\ pc[c] = "resolved"
        /\ net[req[c]].status = 200
        /\ net[req[c]].body = BodyBooks
        /\ result[c] = Value(BooksValue)

(***************************************************************************)
(* C3: a call whose request the transport failed (no response, or a body   *)
(* stream that broke) never resolves and never holds a value: it is        *)
(* pending until resumed and then rejected with the transport's error; the *)
(* failed request stays the call's only request (nothing is re-issued).    *)
(***************************************************************************)
C3_TransportFailureRejects ==
    \A c \in Called :
        TransportFailed(c) =>
            /\ pc[c] # "resolved"
            /\ result[c].kind # "value"
            /\ (Settled(c) => pc[c] = "rejected" /\ result[c] = Error("TypeError"))
            /\ Cardinality({k \in 1..Len(sent) : \E d \in Called : req[d] = k}) = Len(sent)

C3_Witness ==
    \E c \in Called :
        /\ net[req[c]].st = "failed"
        /\ pc[c] = "rejected"
        /\ result[c].kind = "error"

(***************************************************************************)
(* C4: a call whose response body arrived and is not valid JSON ends       *)
(* rejected with the parse error and holds no value; the body  error  with *)
(* status 200 is such a body.                                              *)
(***************************************************************************)
C4_InvalidJsonRejects ==
    \A c \in Called :
        /\ (Settled(c) /\ BodyRead(c) /\ ~JSONparse(net[req[c]].body).ok) =>
              /\ pc[c] = "rejected"
              /\ result[c] = Error("SyntaxError")
        /\ (Settled(c) /\ BodyRead(c) /\ net[req[c]].body = BodyText) =>
              /\ pc[c] = "rejected"
              /\ result[c].kind = "error"

C4_Witness ==
    \E c \in Called :
        /\ net[req[c]].status = 200
        /\ net[req[c]].bodySt = "done"
        /\ net[req[c]].body = BodyText
        /\ pc[c] = "rejected"

(***************************************************************************)
(* C5: the outcome does not depend on the status code: two settled calls   *)
(* whose bodies arrived and are equal have the same outcome whatever their *)
(* statuses, and the body {"detail":"server error"} resolves the call with *)
(* that object under every status, 500 included.  No call settles on the   *)
(* status alone: a call that got a Response settles only once its body     *)
(* has been read or its body stream has broken.                            *)
(***************************************************************************)
C5_StatusIsIgnored ==
    /\ \A c \in Called :
          (Settled(c) /\ net[req[c]].st = "headers") =>
              net[req[c]].bodySt \in {"done", "failed"}
    /\ \A c, d \in Called :
          (/\ Settled(c) /\ BodyRead(c)
           /\ Settled(d) /\ BodyRead(d)
           /\ net[req[c]].body = net[req[d]].body) =>
              pc[c] = pc[d] /\ result[c] = result[d]
    /\ \A c \in Called :
          (Settled(c) /\ net[req[c]].st = "headers" /\ ~TransportFailed(c)
           /\ net[req[c]].body = BodyDetail) =>
              pc[c] = "resolved" /\ result[c] = Value(DetailValue)

C5_Witness ==
    \E c, d \in Called :
        /\ net[req[c]].status = 200 /\ net[req[d]].status = 500
        /\ net[req[c]].body = BodyDetail /\ net[req[d]].body = BodyDetail
        /\ pc[c] = "resolved" /\ pc[d] = "resolved"
        /\ result[d] = Value(DetailValue)

(***************************************************************************)
(* C6: with several calls in flight, each call reads the Response of its   *)
(* own request only and settles with the outcome of that request: resolved *)
(* with the value of its own body, or rejected because its own request     *)
(* failed or its own body does not parse.                                  *)
(***************************************************************************)
C6_NoCrossTalk ==
    \A c \in Called :
        /\ res[c] \in {0, req[c]}
        /\ \A d \in Called : d # c => req[d] # req[c]
        /\ pc[c] = "resolved" =>
              /\ BodyRead(c)
              /\ JSONparse(net[req[c]].body).ok
              /\ result[c].val = JSONparse(net[req[c]].body).val
        /\ pc[c] = "rejected" =>
              \/ TransportFailed(c)
              \/ BodyRead(c) /\ ~JSONparse(net[req[c]].body).ok

\* call 2 was issued while call 1 was in flight, with another argument, and
\* its response overtook that of call 1
C6_Witness ==
    /\ nCalls >= 2
    /\ arg[1] # arg[2]
    /\ pc[1] = "awaitJson" /\ net[req[1]].bodySt = "reading"
    /\ pc[2] = "resolved" /\ result[2] = Value(DetailValue)

(***************************************************************************)
(* C7: the endpoint keeps its initial value, and no payload is kept from   *)
(* one call to the next: a later call has a request of its own, issued to  *)
(* the transport, and the value it resolves with is that of its own body.  *)
(***************************************************************************)
C7_EndpointFixedNoCache ==
    /\ endpoint = "https://your-django-api.com/api/"
    /\ \A d \in Called :
          /\ req[d] \in 1..Len(sent)
          /\ \A c \in Called : c < d => req[c] < req[d]
          /\ pc[d] = "resolved" => result[d] = JsonOutcome(net[req[d]].body)

C7_Witness ==
    /\ endpoint = API_URL
    /\ \E c, d \in Called :
          /\ c < d
          /\ pc[c] = "resolved" /\ pc[d] = "resolved"
          /\ result[c] = Value(BooksValue)
          /\ result[d] = Value(JNull)

(***************************************************************************)
(* C8: the lifecycle of a call.  A call that has not been made becomes     *)
(* pending when made; a pending call stays pending or becomes resolved or  *)
(* rejected; a resolved call stays resolved and a rejected call stays      *)
(* rejected, with the result they settled with.                            *)
(***************************************************************************)
C8_Lifecycle ==
    [][\A c \in Calls :
          /\ pc[c] = "idle" => pc'[c] \in {"idle", "awaitFetch"}
          /\ Pending(c) => Pending(c)' \/ Settled(c)'
          /\ pc[c] = "resolved" => pc'[c] = "resolved" /\ result'[c] = result[c]
          /\ pc[c] = "rejected" => pc'[c] = "rejected" /\ result'[c] = result[c]
          /\ Settled(c) <=> result[c].kind # "none"]_vars

C8_Witness ==
    \E c, d \in Called :
        /\ pc[c] = "resolved" /\ result[c].kind = "value"
        /\ pc[d] = "rejected" /\ result[d].kind = "error"

(***************************************************************************)
(* C9: there is no timeout and no cancellation in the client.  As long as  *)
(* the transport has not given its final answer to a call (a failure, or   *)
(* the whole body), the call is pending and is still pending after any     *)
(* step; so a call the transport never answers is pending forever.         *)
(***************************************************************************)
C9_PendingUntilAnswered ==
    [][\A c \in Called : ~Answered(c) => Pending(c) /\ Pending(c)']_vars

\* call 1 has not been answered while the later call 2 has settled
C9_Witness ==
    /\ nCalls >= 2
    /\ net[req[1]].st = "inflight" /\ pc[1] = "awaitFetch"
    /\ Settled(2)

(***************************************************************************)
(* C10: the order of the steps of one call.  The request is issued when    *)
(* the call is made; the body is read only once a Response has been        *)
(* received; JSON.parse runs only on a body read to its end; the call      *)
(* resolves only after JSON.parse has run; and for a request the transport *)
(* failed no body is read and nothing is parsed.                           *)
(***************************************************************************)
C10_StepOrder ==
    \A c \in Called :
        /\ req[c] \in 1..Len(sent)
        /\ (pc[c] = "awaitJson" \/ res[c] # 0 \/ net[req[c]].bodySt # "unread") =>
              net[req[c]].st = "headers" /\ res[c] = req[c]
        /\ parsed[c] => Settled(c) /\ BodyRead(c)
        /\ pc[c] = "resolved" => parsed[c]
        /\ net[req[c]].st = "failed" => ~parsed[c] /\ net[req[c]].bodySt = "unread"
        /\ net[req[c]].bodySt = "failed" => ~parsed[c]

C10_Witness ==
    \E c, d \in Called :
        /\ pc[c] = "resolved" /\ parsed[c] /\ net[req[c]].bodySt = "done"
        /\ pc[d] = "rejected" /\ ~parsed[d] /\ net[req[d]].st = "failed"

====
